---- MODULE Spec2Model ----
(***************************************************************************)
(* Model of the si-pool-noodle sandbox pool: PoolNoodle / PoolNoodleInner  *)
(* (lib/si-pool-noodle/src/pool_noodle.rs) driving LocalUdsInstance        *)
(* sandboxes (lib/si-pool-noodle/src/instance/cyclone/local_uds.rs).       *)
(*                                                                         *)
(* Every await point of the Rust code that separates two accesses to the   *)
(* shared queues is a separate action; the code between two such points is *)
(* one atomic action.                                                      *)
(***************************************************************************)
EXTENDS Integers, Sequences, FiniteSets, Bags, TLC

(* ---------------------------------------------------------------- bounds *)
PoolSize == 2
MaxConcurrency == 2
NumCallers == 2
MaxRetryLimit == 2
MaxLimitRequests == 1
MaxDispatched == 2

(* ------------------------------------------------------------- constants *)
\* the reserved id of the startup health check, and the id() of the
\* process and container runtimes
HealthCheckId == 0

\* the budget of the watch retry loop of spawn() and its pause in ms
WatchRetries == 30
WatchSleepMs == 64

SlotIds == 1..PoolSize
Workers == 1..MaxConcurrency
Callers == 1..NumCallers

\* Option<u32>::None of limit_requests
None == -1

NoInstance == [id |-> -1]

Strategies == {"LocalDocker", "LocalFirecracker", "LocalProcess"}

VARIABLES
    runtime_strategy,   \* LocalUdsInstanceSpec.runtime_strategy
    limit_requests,     \* LocalUdsInstanceSpec.limit_requests (None or a count)
    retry_limit,        \* PoolNoodleConfig.retry_limit
    max_concurrency,    \* PoolNoodleConfig.max_concurrency
    clean_fails_for,    \* the backend: the id whose clean() fails every time
                        \* while every other call succeeds, None when no id
                        \* is singled out
    watch_loop,         \* the locals of the watch retry loop of a spawn()
                        \* followed turn by turn
    work_queue,         \* PoolNoodleInner.work_queue (FIFO, capacity pool_size)
    ready_queue,        \* PoolNoodleInner.ready_queue (FIFO, capacity pool_size)
    run_state,          \* "new" before run(), "checking" inside check_health,
                        \* then "running" or "failed"
    health_step,        \* the steps of check_health completed so far; 0
                        \* outside it and once it has returned Ok, kept when
                        \* it returned Err
    worker,             \* per worker loop: position and the task in hand
    cancelled,          \* shutdown_token
    quiet_at_cancel,    \* history: the token was cancelled with no guard
                        \* held, the ready queue empty and no task in the
                        \* hand of a worker
    get,                \* per caller: position inside get() and its locals
    held                \* bag of instances owned by live LifeGuards

vars == <<runtime_strategy, limit_requests, retry_limit, max_concurrency,
          clean_fails_for, watch_loop,
          work_queue, ready_queue, run_state, health_step, worker, cancelled,
          quiet_at_cancel, get, held>>

config == <<runtime_strategy, limit_requests, retry_limit, max_concurrency,
            clean_fails_for>>

(* ------------------------------------------------------------ the backend *)

\* LocalInstanceRuntime::id of the three runtimes
RuntimeId(strategy, id) ==
    IF strategy = "LocalFirecracker" THEN id ELSE 0

\* Spec::clean and Spec::prepare are Ok(()) for the container and process
\* runtimes; only the micro-VM runtime runs a script that can fail
CanFailCleanPrepare(strategy) == strategy = "LocalFirecracker"

\* faulty variant: an unset budget counts as a spent one
has_remaining_requests_NoneIsSpent(inst) == inst.limit_requests > 0

\* LocalUdsInstance::has_remaining_requests
has_remaining_requests(inst) == inst.limit_requests # 0

\* faulty variant: the stop channel is never seen closed
is_watch_shutdown_open_AlwaysOpen(inst) == inst.id = inst.id

\* LocalUdsInstance::is_watch_shutdown_open
is_watch_shutdown_open(inst) == inst.watch_open

\* LocalUdsInstance::ensure_healthy_client; TRUE is Ok(())
ensure_healthy(inst) ==
    IF ~is_watch_shutdown_open(inst) THEN FALSE
    ELSE IF ~has_remaining_requests(inst) THEN FALSE
    ELSE TRUE

\* what one turn of the select! of watch_task can see: the stop signal (sent,
\* or the Instance and its sender dropped), a ping, a stream error, the end
\* of the stream
WatchEvents == {"shutdown", "ping", "error", "closed"}

\* one turn of the loop of watch_task: "exit" leaves the loop and ends the
\* task, which drops shutdown_rx; only a ping keeps it going
watch_task(event) ==
    IF event = "shutdown" THEN "exit"
    ELSE IF event = "ping" THEN "continue"
    ELSE IF event = "error" THEN "exit"
    ELSE "exit"

\* LocalUdsInstance::count_request: saturating_sub(1) on a set counter
count_request(inst) ==
    IF inst.limit_requests = None THEN inst
    ELSE [inst EXCEPT !.limit_requests = IF @ >= 1 THEN @ - 1 ELSE 0]

\* the steps of LocalUdsInstanceSpec::spawn that can return Err, in order:
\* runtime.spawn(), the watch session (retried before WatchInitTimeout),
\* watch.start(), the first watch ping
SpawnSteps == <<"runtime_spawn", "watch", "watch_start", "first_ping">>

\* the error spawn() returns when it is left at each of these steps; at the
\* last one this is the error of a stream that ended before its first item
\* (an item that is an error leaves at the same step with the Watch error)
SpawnErrors == <<"RuntimeSpawn", "WatchInitTimeout", "Watch", "WatchClosed">>

\* the steps of spawn() completed when it is left at step fail_at
\* (0: no step fails)
StepsDone(fail_at) ==
    IF fail_at = 0 THEN {SpawnSteps[i] : i \in DOMAIN SpawnSteps}
    ELSE {SpawnSteps[i] : i \in 1..(fail_at - 1)}

\* the Instance assembled at the end of LocalUdsInstanceSpec::spawn;
\* via (history) is the set of lifecycle stages the slot has completed since
\* it was last checked out ("Retry" marks a Clean task enqueued after a
\* failure), handed (history) counts the times get() returned it,
\* dispatched (history) the execute requests sent to its client, probed
\* (history) is set by a call that only looks at its health
SpawnedInstance(id, via) ==
    [id |-> RuntimeId(runtime_strategy, id),
     limit_requests |-> limit_requests,
     watch_open |-> TRUE,
     via |-> via \cup {"Prepare", "Spawn"},
     handshake |-> StepsDone(0),
     handed |-> 0,
     dispatched |-> 0,
     probed |-> FALSE]

\* faulty variant: spawn() does not wait for the first watch ping
spawn_NoFirstPing(id, via, fail_at) ==
    IF fail_at \in 1..3
    THEN [ok |-> FALSE, err |-> SpawnErrors[fail_at], instance |-> NoInstance,
          watch_task |-> FALSE]
    ELSE [ok |-> TRUE, err |-> "",
          instance |-> [SpawnedInstance(id, via) EXCEPT
                            !.handshake = StepsDone(fail_at) \ {"first_ping"}],
          watch_task |-> TRUE]

\* faulty variant: the background watch loop is started before the first
\* ping is awaited, and the end of the stream is reported as a timeout
spawn_WatchTaskBeforePing(id, via, fail_at) ==
    IF fail_at \in DOMAIN SpawnSteps
    THEN [ok |-> FALSE,
          err |-> IF fail_at = 4 THEN "WatchInitTimeout" ELSE SpawnErrors[fail_at],
          instance |-> NoInstance,
          watch_task |-> fail_at = 4]
    ELSE [ok |-> TRUE, err |-> "", instance |-> SpawnedInstance(id, via),
          watch_task |-> TRUE]

\* LocalUdsInstanceSpec::spawn with the step that fails drawn by the caller:
\* every step is left with ? (or return Err); watch_task is spawned after
\* the last of them and the Instance is built last
spawn(id, via, fail_at) ==
    IF fail_at \in DOMAIN SpawnSteps
    THEN [ok |-> FALSE, err |-> SpawnErrors[fail_at], instance |-> NoInstance,
          watch_task |-> FALSE]
    ELSE [ok |-> TRUE, err |-> "", instance |-> SpawnedInstance(id, via),
          watch_task |-> TRUE]

(* ----------------------------------------------------------------- tasks *)

\* PoolNoodleTask::new wrapped in PoolNoodleTaskType
Task(kind, id, inst, via) == [kind |-> kind, id |-> id, inst |-> inst, via |-> via]

\* faulty variant: a push on a full queue makes room by dropping the oldest
\* element
ArrayPush_Overwrites(q, x) ==
    IF Len(q) < PoolSize THEN Append(q, x) ELSE Append(Tail(q), x)

\* ArrayQueue::push: Err (item discarded) when the queue holds its capacity
ArrayPush(q, x) == IF Len(q) < PoolSize THEN Append(q, x) ELSE q

push_clean_task_to_work_queue(q, id, via) ==
    ArrayPush(q, Task("Clean", id, NoInstance, via))

push_prepare_task_to_work_queue(q, id, via) ==
    ArrayPush(q, Task("Prepare", id, NoInstance, via))

\* faulty variant: the released instance is not terminated, its slot goes straight
\* back to Clean
push_drop_task_to_work_queue_AsClean(q, inst) ==
    ArrayPush(q, Task("Clean", inst.id, NoInstance, {"Drop"}))

push_drop_task_to_work_queue(q, inst) ==
    ArrayPush(q, Task("Drop", inst.id, inst, {}))

push_to_ready_queue(q, inst) == ArrayPush(q, inst)

\* faulty variant: the seeded ids start at 0
SeedQueue_FromZero(q, id) ==
    q \o [i \in 1..PoolSize |-> Task("Clean", i - 1, NoInstance, {})]

RECURSIVE SeedQueue(_, _)
\* the loop of PoolNoodle::new: one Clean task per id in 1..=pool_size
SeedQueue(q, id) ==
    IF id > PoolSize THEN q
    ELSE SeedQueue(push_clean_task_to_work_queue(q, id, {}), id + 1)

(* ------------------------------------------------- watch retry of spawn *)
(* The loop of spawn() that opens the watch session, one turn per action:  *)
(* the step "watch" of SpawnSteps followed through its attempts.           *)

\* `let mut retries = 30;` before the first client.watch()
WatchLoopEntry ==
    [retries |-> WatchRetries, attempts |-> 0, slept_ms |-> 0, result |-> "trying"]

\* a turn whose client.watch() is Ok: break with the session
WatchAttemptOk ==
    /\ watch_loop.result = "trying"
    /\ watch_loop' = [watch_loop EXCEPT !.attempts = @ + 1, !.result = "watch"]
    /\ UNCHANGED <<config, work_queue, ready_queue, run_state, health_step,
                   worker, cancelled, quiet_at_cancel, get, held>>

\* a turn whose client.watch() is Err: WatchInitTimeout when no retry is
\* left, else one retry less and the pause before the next turn
WatchAttemptErr ==
    /\ watch_loop.result = "trying"
    /\ watch_loop' =
         IF watch_loop.retries < 1
         THEN [watch_loop EXCEPT !.attempts = @ + 1, !.result = "WatchInitTimeout"]
         ELSE [watch_loop EXCEPT !.attempts = @ + 1, !.retries = @ - 1,
                                 !.slept_ms = @ + WatchSleepMs]
    /\ UNCHANGED <<config, work_queue, ready_queue, run_state, health_step,
                   worker, cancelled, quiet_at_cancel, get, held>>

\* the next call of spawn() enters the loop with fresh locals
WatchLoopEnter ==
    /\ watch_loop.result # "trying"
    /\ watch_loop' = WatchLoopEntry
    /\ UNCHANGED <<config, work_queue, ready_queue, run_state, health_step,
                   worker, cancelled, quiet_at_cancel, get, held>>

NextSpawnWatch ==
    \/ WatchAttemptOk
    \/ WatchAttemptErr
    \/ WatchLoopEnter

(* ------------------------------------------------------------------ Init *)

\* the tasks in the hands of the workers
InFlight == {w \in DOMAIN worker : worker[w].pc = "busy"}

\* number of slots alive anywhere in the pool
ItemCount ==
    Len(work_queue) + Cardinality(InFlight) + Len(ready_queue) + BagCardinality(held)

\* the tasks of the work queue and of the workers, as a set
AllTasks ==
    {work_queue[i] : i \in DOMAIN work_queue} \cup {worker[w].task : w \in InFlight}

\* history, read off the state: some instance has reached the ready queue
\* (a slot only leaves the seeded Clean/Prepare stages through the ready queue)
Ramped ==
    \/ ready_queue # <<>>
    \/ held # EmptyBag
    \/ ItemCount < PoolSize
    \/ \E t \in AllTasks : t.kind = "Drop" \/ "Drop" \in t.via

\* the locals of a call of get() that has not polled yet: retries, and the
\* history of the call: the polls that found the ready queue empty, the polls
\* that popped an unhealthy instance, whether a poll saw pool_size guards
\* held, whether the pool had ramped up by the first poll
FreshGet == [retries |-> 0, empty_polls |-> 0, unhealthy_pops |-> 0,
             saw_full |-> FALSE, ramped_at_issue |-> FALSE]

FirstPoll(c) == get[c].empty_polls = 0 /\ get[c].unhealthy_pops = 0

NoTask == [kind |-> "None"]

InitPool ==
    /\ runtime_strategy \in Strategies
    /\ limit_requests \in {None} \cup (0..MaxLimitRequests)
    /\ retry_limit \in 0..MaxRetryLimit
    /\ max_concurrency \in 1..MaxConcurrency
    /\ watch_loop = WatchLoopEntry
    /\ work_queue = SeedQueue(<<>>, 1)
    /\ ready_queue = <<>>
    /\ run_state = "new"
    /\ health_step = 0
    /\ worker = [w \in Workers |-> [pc |-> "none", task |-> NoTask]]
    /\ cancelled = FALSE
    /\ quiet_at_cancel = FALSE
    /\ get = [c \in Callers |-> FreshGet]
    /\ held = EmptyBag

Init ==
    /\ InitPool
    /\ clean_fails_for = None

(* ----------------------------------------------------------------- run() *)

\* PoolNoodle::check_health: whether ensure_healthy of the instance spawned
\* on the reserved id can succeed
HealthCheckCanPass == limit_requests # 0

\* the calls of check_health in program order, all on the reserved id; each
\* is left with ? when it errs
HealthCheckSteps ==
    <<"clean", "prepare", "spawn", "ensure_healthy", "terminate", "clean">>

\* whether this call of check_health can return Ok, and whether it can
\* return Err: clean and prepare err for the micro-VM runtime only,
\* ensure_healthy errs when the budget is Some(0) or the watch loop has left
HealthStepCanPass(step) ==
    step = "ensure_healthy" => HealthCheckCanPass

HealthStepCanFail(step) ==
    step \in {"clean", "prepare"} => CanFailCleanPrepare(runtime_strategy)

\* inside check_health, with a call still to make
InHealthCheck ==
    /\ run_state \in {"new", "checking"}
    /\ health_step < Len(HealthCheckSteps)

\* PoolNoodle::run with check_health set, inside check_health: the next call
\* returns Ok
CheckHealthStep ==
    /\ InHealthCheck
    /\ HealthStepCanPass(HealthCheckSteps[health_step + 1])
    /\ run_state' = "checking"
    /\ health_step' = health_step + 1
    /\ UNCHANGED <<config, watch_loop, work_queue, ready_queue, worker, cancelled,
                   quiet_at_cancel, get, held>>

\* check_health is not to be run, or has made all its calls
HealthCheckOver(check_health) ==
    IF check_health
    THEN run_state = "checking" /\ health_step = Len(HealthCheckSteps)
    ELSE run_state = "new"

\* faulty variant: a worker loop is launched for every worker of the model,
\* whatever max_concurrency says
RunOk_LaunchesAll(check_health) ==
    /\ HealthCheckOver(check_health)
    /\ run_state' = "running"
    /\ health_step' = 0
    /\ worker' = [w \in Workers |-> [pc |-> "idle", task |-> NoTask]]
    /\ UNCHANGED <<config, watch_loop, work_queue, ready_queue, cancelled, quiet_at_cancel,
                   get, held>>

\* PoolNoodle::run with PoolNoodleConfig.check_health = check_health (the flag
\* is read by run() only, so it is drawn here), the health check disabled or
\* passed: every worker loop is launched
RunOk(check_health) ==
    /\ HealthCheckOver(check_health)
    /\ run_state' = "running"
    /\ health_step' = 0
    /\ worker' = [w \in Workers |->
                    [pc |-> IF w <= max_concurrency THEN "idle" ELSE "none",
                     task |-> NoTask]]
    /\ UNCHANGED <<config, watch_loop, work_queue, ready_queue, cancelled, quiet_at_cancel, get, held>>

\* faulty variant: the worker loops are launched although the check failed
RunErr_LaunchesWorkers(check_health) ==
    /\ check_health
    /\ InHealthCheck
    /\ HealthStepCanFail(HealthCheckSteps[health_step + 1])
    /\ run_state' = "failed"
    /\ worker' = [w \in Workers |-> [pc |-> "idle", task |-> NoTask]]
    /\ UNCHANGED <<config, watch_loop, health_step, work_queue, ready_queue, cancelled,
                   quiet_at_cancel, get, held>>

\* faulty variant: once the instance is spawned, a failing call is followed
\* by the remaining ones before run() returns the error
RunErr_RunsRemainingSteps(check_health) ==
    /\ check_health
    /\ InHealthCheck
    /\ HealthStepCanFail(HealthCheckSteps[health_step + 1])
    /\ run_state' = "failed"
    /\ health_step' = IF health_step >= 3 THEN Len(HealthCheckSteps) ELSE health_step
    /\ UNCHANGED <<config, watch_loop, work_queue, ready_queue, worker, cancelled,
                   quiet_at_cancel, get, held>>

\* PoolNoodle::run, the next call of check_health returning Err: run()
\* returns it, the later calls are not made, no worker is launched
RunErr(check_health) ==
    /\ check_health
    /\ InHealthCheck
    /\ HealthStepCanFail(HealthCheckSteps[health_step + 1])
    /\ run_state' = "failed"
    /\ UNCHANGED <<config, watch_loop, health_step, work_queue, ready_queue, worker, cancelled,
                   quiet_at_cancel, get, held>>

\* run() making progress: through check_health, then launching the workers
RunStep ==
    \/ CheckHealthStep
    \/ \E check_health \in BOOLEAN : RunOk(check_health)

(* ---------------------------------------------------------- worker loops *)

\* faulty variant: a task popped while the token is cancelled is thrown away
\* and the loop left
WorkerPop_DropsWhenCancelled(w) ==
    /\ worker[w].pc = "idle"
    /\ work_queue # <<>>
    /\ worker' = [worker EXCEPT ![w] =
                    IF cancelled THEN [pc |-> "exited", task |-> NoTask]
                    ELSE [pc |-> "busy", task |-> Head(work_queue)]]
    /\ work_queue' = Tail(work_queue)
    /\ UNCHANGED <<config, watch_loop, health_step, ready_queue, run_state,
                   cancelled, quiet_at_cancel, get, held>>

\* spawn_worker, the pop branch of select!: the branches are polled in
\* random order, so this branch can win whether or not the token is cancelled
WorkerPop(w) ==
    /\ worker[w].pc = "idle"
    /\ work_queue # <<>>
    /\ worker' = [worker EXCEPT ![w] = [pc |-> "busy", task |-> Head(work_queue)]]
    /\ work_queue' = Tail(work_queue)
    /\ UNCHANGED <<config, watch_loop, health_step, ready_queue, run_state, cancelled, quiet_at_cancel, get, held>>

\* faulty variant: the cancellation also ends a worker that has a task in hand
WorkerExit_AbortsTask(w) ==
    /\ worker[w].pc \in {"idle", "busy"}
    /\ cancelled
    /\ worker' = [worker EXCEPT ![w] = [pc |-> "exited", task |-> NoTask]]
    /\ UNCHANGED <<config, watch_loop, health_step, work_queue, ready_queue, run_state, cancelled,
                   quiet_at_cancel, get, held>>

\* faulty variant: the pop branch is polled first, so the loop leaves only
\* when the work queue is empty
WorkerExit_AfterEmptyQueue(w) ==
    /\ worker[w].pc = "idle"
    /\ cancelled
    /\ work_queue = <<>>
    /\ worker' = [worker EXCEPT ![w] = [pc |-> "exited", task |-> NoTask]]
    /\ UNCHANGED <<config, watch_loop, health_step, work_queue, ready_queue,
                   run_state, cancelled, quiet_at_cancel, get, held>>

\* spawn_worker, the cancellation branch of select!
WorkerExit(w) ==
    /\ worker[w].pc = "idle"
    /\ cancelled
    /\ worker' = [worker EXCEPT ![w] = [pc |-> "exited", task |-> NoTask]]
    /\ UNCHANGED <<config, watch_loop, health_step, work_queue, ready_queue, run_state, cancelled, quiet_at_cancel, get,
                   held>>

\* history of a Clean task re-enqueued after a failed prepare or spawn: the
\* stages of the failed attempt are forgotten, the retry is recorded
Retried(via) == (via \cap {"Drop"}) \cup {"Retry"}

Busy(w, kind) == worker[w].pc = "busy" /\ worker[w].task.kind = kind

Finish(w) == worker' = [worker EXCEPT ![w] = [pc |-> "idle", task |-> NoTask]]

\* handle_clean, clean() returning Ok
HandleCleanOk(w) ==
    /\ Busy(w, "Clean")
    /\ work_queue' = push_prepare_task_to_work_queue(work_queue,
                        worker[w].task.id,
                        (worker[w].task.via \ {"Retry"}) \cup {"Clean"})
    /\ Finish(w)
    /\ UNCHANGED <<config, watch_loop, health_step, ready_queue, run_state, cancelled, quiet_at_cancel, get, held>>

\* faulty variant: the failure of clean() is ignored
HandleCleanErr_PreparesAnyway(w) ==
    /\ Busy(w, "Clean")
    /\ CanFailCleanPrepare(runtime_strategy)
    /\ work_queue' = push_prepare_task_to_work_queue(work_queue,
                        worker[w].task.id, worker[w].task.via \cup {"Clean"})
    /\ Finish(w)
    /\ UNCHANGED <<config, watch_loop, health_step, ready_queue, run_state, cancelled, quiet_at_cancel,
                   get, held>>

\* faulty variant: a Clean task that already failed once is given up
HandleCleanErr_GivesUp(w) ==
    /\ Busy(w, "Clean")
    /\ CanFailCleanPrepare(runtime_strategy)
    /\ work_queue' = IF "Retry" \in worker[w].task.via THEN work_queue
                      ELSE push_clean_task_to_work_queue(work_queue,
                               worker[w].task.id, worker[w].task.via \cup {"Retry"})
    /\ Finish(w)
    /\ UNCHANGED <<config, watch_loop, health_step, ready_queue, run_state, cancelled, quiet_at_cancel,
                   get, held>>

\* handle_clean, clean() returning Err
HandleCleanErr(w) ==
    /\ Busy(w, "Clean")
    /\ CanFailCleanPrepare(runtime_strategy)
    /\ work_queue' = push_clean_task_to_work_queue(work_queue,
                        worker[w].task.id, worker[w].task.via \cup {"Retry"})
    /\ Finish(w)
    /\ UNCHANGED <<config, watch_loop, health_step, ready_queue, run_state, cancelled, quiet_at_cancel, get, held>>

\* faulty variant: the terminated instance is put back into the ready queue
HandleDropOk_Recycle(w) ==
    /\ Busy(w, "Drop")
    /\ ready_queue' = push_to_ready_queue(ready_queue, worker[w].task.inst)
    /\ Finish(w)
    /\ UNCHANGED <<config, watch_loop, health_step, work_queue, run_state, cancelled, quiet_at_cancel, get, held>>

\* handle_drop, terminate() returning Ok
HandleDropOk(w) ==
    /\ Busy(w, "Drop")
    /\ work_queue' = push_clean_task_to_work_queue(work_queue,
                        worker[w].task.id, worker[w].task.via \cup {"Drop"})
    /\ Finish(w)
    /\ UNCHANGED <<config, watch_loop, health_step, ready_queue, run_state, cancelled, quiet_at_cancel, get, held>>

\* faulty variant: the slot is cleaned although terminate() failed
HandleDropErr_Requeues(w) ==
    /\ Busy(w, "Drop")
    /\ work_queue' = push_clean_task_to_work_queue(work_queue,
                        worker[w].task.id, worker[w].task.via \cup {"Drop"})
    /\ Finish(w)
    /\ UNCHANGED <<config, watch_loop, health_step, ready_queue, run_state, cancelled, quiet_at_cancel,
                   get, held>>

\* handle_drop, terminate() returning Err: only logged
HandleDropErr(w) ==
    /\ Busy(w, "Drop")
    /\ Finish(w)
    /\ UNCHANGED <<config, watch_loop, health_step, work_queue, ready_queue, run_state, cancelled, quiet_at_cancel, get,
                   held>>

\* faulty variant: the spawned instance is not pushed, the slot is cleaned again
HandlePrepareOk_NoPush(w) ==
    /\ Busy(w, "Prepare")
    /\ work_queue' = push_clean_task_to_work_queue(work_queue,
                        worker[w].task.id, worker[w].task.via \cap {"Drop"})
    /\ Finish(w)
    /\ UNCHANGED <<config, watch_loop, health_step, ready_queue, run_state, cancelled, quiet_at_cancel, get, held>>

\* faulty variant: the slot of a spawned instance is also sent back to Clean
HandlePrepareOk_AlsoRequeues(w) ==
    /\ Busy(w, "Prepare")
    /\ \E fail_at \in 0..Len(SpawnSteps) :
        LET r == spawn(worker[w].task.id, worker[w].task.via, fail_at)
        IN  /\ r.ok
            /\ ready_queue' = push_to_ready_queue(ready_queue, r.instance)
    /\ work_queue' = push_clean_task_to_work_queue(work_queue, worker[w].task.id, {})
    /\ Finish(w)
    /\ UNCHANGED <<config, watch_loop, health_step, run_state, cancelled,
                   quiet_at_cancel, get, held>>

\* handle_prepare, prepare() and spawn() both returning Ok
HandlePrepareOk(w) ==
    /\ Busy(w, "Prepare")
    /\ \E fail_at \in 0..Len(SpawnSteps) :
        LET r == spawn(worker[w].task.id, worker[w].task.via, fail_at)
        IN  /\ r.ok
            /\ ready_queue' = push_to_ready_queue(ready_queue, r.instance)
    /\ Finish(w)
    /\ UNCHANGED <<config, watch_loop, health_step, work_queue, run_state, cancelled, quiet_at_cancel, get, held>>

\* handle_prepare, prepare() returning Err
HandlePrepareErr(w) ==
    /\ Busy(w, "Prepare")
    /\ CanFailCleanPrepare(runtime_strategy)
    /\ work_queue' = push_clean_task_to_work_queue(work_queue,
                        worker[w].task.id, Retried(worker[w].task.via))
    /\ Finish(w)
    /\ UNCHANGED <<config, watch_loop, health_step, ready_queue, run_state, cancelled, quiet_at_cancel, get, held>>

\* faulty variant: a failed spawn() is only logged
HandleSpawnErr_NoRequeue(w) ==
    /\ Busy(w, "Prepare")
    /\ Finish(w)
    /\ UNCHANGED <<config, watch_loop, health_step, work_queue, ready_queue, run_state, cancelled,
                   quiet_at_cancel, get, held>>

\* handle_prepare, prepare() returning Ok and spawn() returning Err
HandleSpawnErr(w) ==
    /\ Busy(w, "Prepare")
    /\ \E fail_at \in 0..Len(SpawnSteps) :
        ~spawn(worker[w].task.id, worker[w].task.via, fail_at).ok
    /\ work_queue' = push_clean_task_to_work_queue(work_queue,
                        worker[w].task.id, Retried(worker[w].task.via))
    /\ Finish(w)
    /\ UNCHANGED <<config, watch_loop, health_step, ready_queue, run_state, cancelled, quiet_at_cancel, get, held>>

(* ----------------------------------------------------------------- get() *)
(* A caller is always inside one call of get(): when a call returns, the   *)
(* caller's locals are those of its next call, which has not polled yet.   *)
(* Entering get() touches nothing shared, so the moment a call is issued   *)
(* is any moment before its first poll.                                    *)

\* faulty variant: gives up one retry early
GetStarved_OneEarly(c) ==
    /\ get[c].retries + 1 >= retry_limit
    /\ get' = [get EXCEPT ![c] = FreshGet]
    /\ UNCHANGED <<config, watch_loop, health_step, work_queue, ready_queue, run_state, worker,
                   cancelled, quiet_at_cancel, held>>

\* get: retries >= max_retries, Err(ExecutionPoolStarved)
GetStarved(c) ==
    /\ get[c].retries >= retry_limit
    /\ get' = [get EXCEPT ![c] = FreshGet]
    /\ UNCHANGED <<config, watch_loop, health_step, work_queue, ready_queue, run_state, worker,
                   cancelled, quiet_at_cancel, held>>

\* faulty variant: the ready queue is popped before retries is looked at
GetPopHealthy_BeforeRetryCheck(c) ==
    /\ ready_queue # <<>>
    /\ ensure_healthy(Head(ready_queue))
    /\ ready_queue' = Tail(ready_queue)
    /\ held' = held (+) SetToBag({[Head(ready_queue) EXCEPT !.handed = @ + 1]})
    /\ get' = [get EXCEPT ![c] = FreshGet]
    /\ UNCHANGED <<config, watch_loop, health_step, work_queue, run_state, worker,
                   cancelled, quiet_at_cancel>>

\* faulty variant: the instance is handed out but stays in the ready queue
GetPopHealthy_Peek(c) ==
    /\ get[c].retries < retry_limit
    /\ ready_queue # <<>>
    /\ ensure_healthy(Head(ready_queue))
    /\ held' = held (+) SetToBag({[Head(ready_queue) EXCEPT !.handed = @ + 1]})
    /\ get' = [get EXCEPT ![c] = FreshGet]
    /\ UNCHANGED <<config, watch_loop, health_step, work_queue, ready_queue, run_state, worker, cancelled, quiet_at_cancel>>

\* faulty variant: the popped instance is handed out without the health check
GetPopHealthy_NoCheck(c) ==
    /\ get[c].retries < retry_limit
    /\ ready_queue # <<>>
    /\ ready_queue' = Tail(ready_queue)
    /\ held' = held (+) SetToBag({[Head(ready_queue) EXCEPT !.handed = @ + 1]})
    /\ get' = [get EXCEPT ![c] = FreshGet]
    /\ UNCHANGED <<config, watch_loop, health_step, work_queue, run_state, worker, cancelled, quiet_at_cancel>>

\* get: ready_queue.pop() is Some and ensure_healthy is Ok: the LifeGuard
GetPopHealthy(c) ==
    /\ get[c].retries < retry_limit
    /\ ready_queue # <<>>
    /\ ensure_healthy(Head(ready_queue))
    /\ ready_queue' = Tail(ready_queue)
    /\ held' = held (+) SetToBag({[Head(ready_queue) EXCEPT !.handed = @ + 1]})
    /\ get' = [get EXCEPT ![c] = FreshGet]
    /\ UNCHANGED <<config, watch_loop, health_step, work_queue, run_state, worker, cancelled, quiet_at_cancel>>

\* faulty variant: popping an unhealthy instance costs a retry credit
GetPopUnhealthy_CountsRetry(c) ==
    /\ get[c].retries < retry_limit
    /\ ready_queue # <<>>
    /\ ~ensure_healthy(Head(ready_queue))
    /\ ready_queue' = Tail(ready_queue)
    /\ get' = [get EXCEPT ![c].unhealthy_pops = @ + 1, ![c].retries = @ + 1,
                          ![c].ramped_at_issue = IF FirstPoll(c) THEN Ramped ELSE @]
    /\ UNCHANGED <<config, watch_loop, health_step, work_queue, run_state, worker, cancelled, quiet_at_cancel, held>>

\* faulty variant: the error of ensure_healthy ends the call
GetPopUnhealthy_ReturnsErr(c) ==
    /\ get[c].retries < retry_limit
    /\ ready_queue # <<>>
    /\ ~ensure_healthy(Head(ready_queue))
    /\ ready_queue' = Tail(ready_queue)
    /\ get' = [get EXCEPT ![c] = FreshGet]
    /\ UNCHANGED <<config, watch_loop, health_step, work_queue, run_state, worker, cancelled,
                   quiet_at_cancel, held>>

\* get: ready_queue.pop() is Some and ensure_healthy is Err: drop(instance)
GetPopUnhealthy(c) ==
    /\ get[c].retries < retry_limit
    /\ ready_queue # <<>>
    /\ ~ensure_healthy(Head(ready_queue))
    /\ ready_queue' = Tail(ready_queue)
    /\ get' = [get EXCEPT ![c].unhealthy_pops = @ + 1,
                          ![c].ramped_at_issue = IF FirstPoll(c) THEN Ramped ELSE @]
    /\ UNCHANGED <<config, watch_loop, health_step, work_queue, run_state, worker, cancelled, quiet_at_cancel, held>>

\* faulty variant: an empty poll does not cost a retry credit
GetEmpty_FreeRetry(c) ==
    /\ get[c].retries < retry_limit
    /\ ready_queue = <<>>
    /\ get' = [get EXCEPT ![c].empty_polls = @ + 1,
                          ![c].saw_full = @ \/ BagCardinality(held) = PoolSize,
                          ![c].ramped_at_issue = IF FirstPoll(c) THEN Ramped ELSE @]
    /\ UNCHANGED <<config, watch_loop, health_step, work_queue, ready_queue,
                   run_state, worker, cancelled, quiet_at_cancel, held>>

\* get: ready_queue.pop() is None: retries += 1, the 10 ms sleep, and back to
\* the top of the loop (the sleep touches nothing shared)
GetEmpty(c) ==
    /\ get[c].retries < retry_limit
    /\ ready_queue = <<>>
    /\ get' = [get EXCEPT ![c].retries = @ + 1, ![c].empty_polls = @ + 1,
                          ![c].saw_full = @ \/ BagCardinality(held) = PoolSize,
                          ![c].ramped_at_issue = IF FirstPoll(c) THEN Ramped ELSE @]
    /\ UNCHANGED <<config, watch_loop, health_step, work_queue, ready_queue, run_state, worker,
                   cancelled, quiet_at_cancel, held>>

\* one pass of the loop of get() of caller c
GetStep(c) ==
    \/ GetStarved(c)
    \/ GetPopHealthy(c)
    \/ GetPopUnhealthy(c)
    \/ GetEmpty(c)

(* ------------------------------------------------------------- LifeGuard *)

\* release of a LifeGuard (explicit or scope exit): the instance goes to
\* push_drop_task_to_work_queue
Release(inst) ==
    /\ BagIn(inst, held)
    /\ held' = held (-) SetToBag({inst})
    /\ work_queue' = push_drop_task_to_work_queue(work_queue, inst)
    /\ UNCHANGED <<config, watch_loop, health_step, ready_queue, run_state, worker, cancelled, quiet_at_cancel, get>>

(* ------------------------------------------------- the holder of a guard *)

\* faulty variant: a request whose client call failed is not counted
Execute_CountsOnSuccess(inst, client_ok) ==
    /\ inst \in BagToSet(held)
    /\ inst.dispatched < MaxDispatched
    /\ held' = IF ensure_healthy(inst)
               THEN (held (-) SetToBag({inst}))
                    (+) SetToBag({IF client_ok
                                  THEN count_request([inst EXCEPT !.dispatched = @ + 1])
                                  ELSE [inst EXCEPT !.dispatched = @ + 1]})
               ELSE held
    /\ UNCHANGED <<config, watch_loop, work_queue, ready_queue, run_state,
                   health_step, worker, cancelled, quiet_at_cancel, get>>

\* faulty variant: a spent request counter is filled up again by the next
\* request
Execute_RefillsSpent(inst, client_ok) ==
    /\ inst \in BagToSet(held)
    /\ inst.dispatched < MaxDispatched
    /\ held' = IF ensure_healthy(inst)
               THEN (held (-) SetToBag({inst}))
                    (+) SetToBag({count_request([inst EXCEPT !.dispatched = @ + 1])})
               ELSE (held (-) SetToBag({inst}))
                    (+) SetToBag({[inst EXCEPT !.limit_requests = limit_requests,
                                                !.dispatched = 0]})
    /\ UNCHANGED <<config, watch_loop, work_queue, ready_queue, run_state,
                   health_step, worker, cancelled, quiet_at_cancel, get>>

\* LocalUdsInstance::execute_ping, execute_resolver, execute_validation,
\* execute_action_run, execute_reconciliation and
\* execute_schema_variant_definition on the instance of a guard: Err
\* (unhealthy) when ensure_healthy_client fails, else the client call, whose
\* result client_ok is returned after count_request
Execute(inst, client_ok) ==
    /\ inst \in BagToSet(held)
    /\ inst.dispatched < MaxDispatched
    /\ held' = IF ensure_healthy(inst)
               THEN (held (-) SetToBag({inst}))
                    (+) SetToBag({count_request([inst EXCEPT !.dispatched = @ + 1])})
               ELSE held
    /\ UNCHANGED <<config, watch_loop, work_queue, ready_queue, run_state,
                   health_step, worker, cancelled, quiet_at_cancel, get>>

\* the calls on an instance that look at its health and send no execute
\* request
ProbeCalls == {"ensure_healthy", "watch", "liveness", "readiness"}

\* faulty variant: a call that only looks at the health is counted as a
\* request
Probe_Counts(inst, call) ==
    /\ inst \in BagToSet(held)
    /\ call \in ProbeCalls
    /\ held' = (held (-) SetToBag({inst}))
               (+) SetToBag({count_request([inst EXCEPT !.probed = TRUE])})
    /\ UNCHANGED <<config, watch_loop, work_queue, ready_queue, run_state,
                   health_step, worker, cancelled, quiet_at_cancel, get>>

\* LocalUdsInstance::ensure_healthy, watch, liveness and readiness on the
\* instance of a guard: ensure_healthy_client, then (but for ensure_healthy)
\* the client call; count_request is not called
Probe(inst, call) ==
    /\ inst \in BagToSet(held)
    /\ call \in ProbeCalls
    /\ held' = (held (-) SetToBag({inst}))
               (+) SetToBag({[inst EXCEPT !.probed = TRUE]})
    /\ UNCHANGED <<config, watch_loop, work_queue, ready_queue, run_state,
                   health_step, worker, cancelled, quiet_at_cancel, get>>

\* watch_task of the instance of a guard leaves its loop
HeldWatchTaskExit(inst) ==
    /\ inst \in BagToSet(held)
    /\ inst.watch_open
    /\ \E event \in WatchEvents \ {"shutdown"} : watch_task(event) = "exit"
    /\ held' = (held (-) SetToBag({inst}))
               (+) SetToBag({[inst EXCEPT !.watch_open = FALSE]})
    /\ UNCHANGED <<config, watch_loop, work_queue, ready_queue, run_state,
                   health_step, worker, cancelled, quiet_at_cancel, get>>

(* ----------------------------------------------------------- environment *)

\* shutdown_token.cancel()
Cancel ==
    /\ ~cancelled
    /\ cancelled' = TRUE
    /\ quiet_at_cancel' = /\ held = EmptyBag
                          /\ ready_queue = <<>>
                          /\ InFlight = {}
    /\ UNCHANGED <<config, watch_loop, health_step, work_queue, ready_queue, run_state, worker, get,
                   held>>

\* watch_task of an instance waiting in the ready queue leaves its loop
\* (nothing sends the stop signal to such an instance, so the stream ended
\* or errored) and drops shutdown_rx: watch_shutdown_tx.is_closed() becomes
\* true
WatchTaskExit(i) ==
    /\ i \in DOMAIN ready_queue
    /\ ready_queue[i].watch_open
    /\ \E event \in WatchEvents \ {"shutdown"} : watch_task(event) = "exit"
    /\ ready_queue' = [ready_queue EXCEPT ![i].watch_open = FALSE]
    /\ UNCHANGED <<config, watch_loop, health_step, work_queue, run_state, worker, cancelled, quiet_at_cancel, get,
                   held>>

(* ------------------------------------------------------------------ Spec *)

Next ==
    \/ CheckHealthStep
    \/ \E check_health \in BOOLEAN : RunOk(check_health)
    \/ \E check_health \in BOOLEAN : RunErr(check_health)
    \/ \E w \in Workers : WorkerPop(w)
    \/ \E w \in Workers : HandleCleanOk(w)
    \/ \E w \in Workers : HandleCleanErr(w)
    \/ \E w \in Workers : HandleDropOk(w)
    \/ \E w \in Workers : HandleDropErr(w)
    \/ \E w \in Workers : HandlePrepareOk(w)
    \/ \E w \in Workers : HandlePrepareErr(w)
    \/ \E w \in Workers : HandleSpawnErr(w)
    \/ \E c \in Callers : GetStarved(c)
    \/ \E c \in Callers : GetPopHealthy(c)
    \/ \E c \in Callers : GetPopUnhealthy(c)
    \/ \E c \in Callers : GetEmpty(c)
    \/ \E inst \in BagToSet(held) : Release(inst)
    \/ \E i \in 1..PoolSize : WatchTaskExit(i)

\* the pool while the shutdown token is not cancelled
Spec == Init /\ [][Next]_vars

\* the pool with shutdown_token.cancel() and the worker loops leaving
NextShutdown ==
    \/ Next
    \/ Cancel
    \/ \E w \in Workers : WorkerExit(w)

SpecShutdown == Init /\ [][NextShutdown]_vars

(* ------------------------------------------ always-succeeding backend *)
(* The pool in operation with a backend whose clean, prepare, spawn,       *)
(* ensure_healthy and terminate always succeed, run() called and the token *)
(* never cancelled.  The worker loops are tokio tasks: each one that can   *)
(* take a step eventually takes it.                                        *)

InitGood ==
    /\ Init
    /\ limit_requests # 0
    /\ retry_limit >= 1

NextGood ==
    \/ CheckHealthStep
    \/ \E check_health \in BOOLEAN : RunOk(check_health)
    \/ \E w \in Workers : WorkerPop(w)
    \/ \E w \in Workers : HandleCleanOk(w)
    \/ \E w \in Workers : HandleDropOk(w)
    \/ \E w \in Workers : HandlePrepareOk(w)
    \/ \E c \in Callers : GetStarved(c)
    \/ \E c \in Callers : GetPopHealthy(c)
    \/ \E c \in Callers : GetEmpty(c)
    \/ \E inst \in BagToSet(held) : Release(inst)

\* a step of worker loop w: taking a task, or finishing the one in hand with
\* whatever the backend answers
WorkerStep(w) ==
    \/ WorkerPop(w)
    \/ HandleCleanOk(w) \/ HandleCleanErr(w)
    \/ HandleDropOk(w) \/ HandleDropErr(w)
    \/ HandlePrepareOk(w) \/ HandlePrepareErr(w) \/ HandleSpawnErr(w)

WorkerFairness(w) == WF_vars(WorkerStep(w))

SpecGood ==
    /\ InitGood
    /\ [][NextGood]_vars
    /\ WF_vars(RunStep)
    /\ \A w \in Workers : WorkerFairness(w)

(* The same with a backend of which only terminate is known to succeed.    *)

NextTermOk ==
    \/ CheckHealthStep
    \/ \E check_health \in BOOLEAN : RunOk(check_health)
    \/ \E w \in Workers : WorkerPop(w)
    \/ \E w \in Workers : HandleCleanOk(w)
    \/ \E w \in Workers : HandleCleanErr(w)
    \/ \E w \in Workers : HandleDropOk(w)
    \/ \E w \in Workers : HandlePrepareOk(w)
    \/ \E w \in Workers : HandlePrepareErr(w)
    \/ \E w \in Workers : HandleSpawnErr(w)
    \/ \E c \in Callers : GetStarved(c)
    \/ \E c \in Callers : GetPopHealthy(c)
    \/ \E c \in Callers : GetEmpty(c)
    \/ \E inst \in BagToSet(held) : Release(inst)

SpecTermOk ==
    /\ InitGood
    /\ [][NextTermOk]_vars
    /\ WF_vars(RunStep)
    /\ \A w \in Workers : WorkerFairness(w)

(* The pool with a backend whose clean() fails every time for one id and   *)
(* whose every other call succeeds; clean() can fail for the micro-VM      *)
(* runtime only.                                                           *)

InitCleanFails ==
    /\ InitPool
    /\ runtime_strategy = "LocalFirecracker"
    /\ limit_requests # 0
    /\ retry_limit >= 1
    /\ clean_fails_for \in SlotIds

NextCleanFails ==
    \/ CheckHealthStep
    \/ \E check_health \in BOOLEAN : RunOk(check_health)
    \/ \E w \in Workers : WorkerPop(w)
    \/ \E w \in Workers :
         HandleCleanOk(w) /\ worker[w].task.id # clean_fails_for
    \/ \E w \in Workers :
         HandleCleanErr(w) /\ worker[w].task.id = clean_fails_for
    \/ \E w \in Workers : HandleDropOk(w)
    \/ \E w \in Workers : HandlePrepareOk(w)
    \/ \E c \in Callers : GetStarved(c)
    \/ \E c \in Callers : GetPopHealthy(c)
    \/ \E c \in Callers : GetEmpty(c)
    \/ \E inst \in BagToSet(held) : Release(inst)

SpecCleanFails ==
    /\ InitCleanFails
    /\ [][NextCleanFails]_vars
    /\ WF_vars(RunStep)
    /\ \A w \in Workers : WorkerFairness(w)

(* The pool with the holders of the guards sending execute requests, the   *)
(* worker loops running against a backend that always succeeds.            *)

NextExecute ==
    \/ NextGood
    \/ \E c \in Callers : GetPopUnhealthy(c)
    \/ \E i \in 1..PoolSize : WatchTaskExit(i)
    \/ \E inst \in BagToSet(held) : \E client_ok \in BOOLEAN : Execute(inst, client_ok)
    \/ \E inst \in BagToSet(held) : HeldWatchTaskExit(inst)

SpecExecute == Init /\ [][NextExecute]_vars

(* The same with the calls that only look at the health of an instance;    *)
(* the callers of get() matter as the source of guards only and have one   *)
(* retry credit per call.                                                  *)

NextProbe ==
    \/ NextExecute
    \/ \E inst \in BagToSet(held) : \E call \in ProbeCalls : Probe(inst, call)

InitProbe ==
    /\ Init
    /\ retry_limit = 1

SpecProbe == InitProbe /\ [][NextProbe]_vars

(* The four push functions of PoolNoodleInner applied to queues of every   *)
(* length with every task and instance: the work queue starts as what is   *)
(* left of its seeding, the ready queue empty.                             *)

InitPush ==
    /\ runtime_strategy \in Strategies
    /\ limit_requests \in {None} \cup (0..MaxLimitRequests)
    /\ retry_limit \in 0..MaxRetryLimit
    /\ max_concurrency \in 1..MaxConcurrency
    /\ clean_fails_for = None
    /\ watch_loop = WatchLoopEntry
    /\ work_queue \in {SubSeq(SeedQueue(<<>>, 1), n + 1, PoolSize) : n \in 0..PoolSize}
    /\ ready_queue = <<>>
    /\ run_state = "new"
    /\ health_step = 0
    /\ worker = [w \in Workers |-> [pc |-> "none", task |-> NoTask]]
    /\ cancelled = FALSE
    /\ quiet_at_cancel = FALSE
    /\ get = [c \in Callers |-> FreshGet]
    /\ held = EmptyBag

PushClean(id) ==
    /\ work_queue' = push_clean_task_to_work_queue(work_queue, id, {})
    /\ UNCHANGED <<config, watch_loop, ready_queue, run_state, health_step,
                   worker, cancelled, quiet_at_cancel, get, held>>

PushPrepare(id) ==
    /\ work_queue' = push_prepare_task_to_work_queue(work_queue, id, {"Clean"})
    /\ UNCHANGED <<config, watch_loop, ready_queue, run_state, health_step,
                   worker, cancelled, quiet_at_cancel, get, held>>

PushDrop(id) ==
    /\ work_queue' = push_drop_task_to_work_queue(work_queue, SpawnedInstance(id, {}))
    /\ UNCHANGED <<config, watch_loop, ready_queue, run_state, health_step,
                   worker, cancelled, quiet_at_cancel, get, held>>

PushReady(id) ==
    /\ ready_queue' = push_to_ready_queue(ready_queue, SpawnedInstance(id, {"Clean"}))
    /\ UNCHANGED <<config, watch_loop, work_queue, run_state, health_step,
                   worker, cancelled, quiet_at_cancel, get, held>>

NextPush ==
    \/ \E id \in SlotIds : PushClean(id)
    \/ \E id \in SlotIds : PushPrepare(id)
    \/ \E id \in SlotIds : PushDrop(id)
    \/ \E id \in SlotIds : PushReady(id)

SpecPush == InitPush /\ [][NextPush]_vars

(* The pool with callers that keep running: a caller inside get() is a     *)
(* task polled again after each of its 10 ms sleeps and awaits.            *)

SpecGetFair ==
    /\ Init
    /\ [][Next]_vars
    /\ \A c \in Callers : WF_vars(GetStep(c))

(* Shutdown with worker loops that keep running.  A backend call in flight *)
(* returns, so a handler finishes.  select! polls its branches in random   *)
(* order: a loop that is again and again at the top of its select! with    *)
(* the token cancelled takes the cancellation branch at some point.  The   *)
(* pool has no caller of get(); the work the loops find after the          *)
(* cancellation comes from failing backend calls.                          *)

HandlerStep(w) ==
    \/ HandleCleanOk(w) \/ HandleCleanErr(w)
    \/ HandleDropOk(w) \/ HandleDropErr(w)
    \/ HandlePrepareOk(w) \/ HandlePrepareErr(w) \/ HandleSpawnErr(w)

NextShutdownFair ==
    \/ CheckHealthStep
    \/ \E check_health \in BOOLEAN : RunOk(check_health)
    \/ \E check_health \in BOOLEAN : RunErr(check_health)
    \/ \E w \in Workers : WorkerPop(w)
    \/ \E w \in Workers : HandleCleanOk(w)
    \/ \E w \in Workers : HandleCleanErr(w)
    \/ \E w \in Workers : HandlePrepareOk(w)
    \/ \E w \in Workers : HandlePrepareErr(w)
    \/ \E w \in Workers : HandleSpawnErr(w)
    \/ \E i \in 1..PoolSize : WatchTaskExit(i)
    \/ Cancel
    \/ \E w \in Workers : WorkerExit(w)

SpecShutdownFair ==
    /\ Init
    /\ [][NextShutdownFair]_vars
    /\ \A w \in Workers : WF_vars(HandlerStep(w)) /\ SF_vars(WorkerExit(w))

(* The watch retry loop of spawn() on its own, for every configuration.    *)

SpecSpawnWatch == Init /\ [][NextSpawnWatch]_vars

(* ------------------------------------------------------------ properties *)

\* number of guards held whose instance carries id
HeldWithId(id) ==
    LET S == {x \in BagToSet(held) : x.id = id}
    IN  BagCardinality([x \in S |-> held[x]])

\* number of items carrying id over all the places a slot can be
ItemsWithId(id) ==
    Cardinality({i \in DOMAIN work_queue : work_queue[i].id = id})
    + Cardinality({w \in InFlight : worker[w].task.id = id})
    + Cardinality({i \in DOMAIN ready_queue : ready_queue[i].id = id})
    + HeldWithId(id)

AllIds == 0..PoolSize

\* the step is caller c's get() returning Err(ExecutionPoolStarved)
\* (with retry_limit = 0 a call that has not polled returns it with no change)
StarvedStep(c) ==
    /\ get[c] # FreshGet
    /\ get'[c] = FreshGet
    /\ held' = held

\* the step is some get() returning a guard
GuardStep == BagCardinality(held') > BagCardinality(held)

\* the step is a release of a guard
ReleaseStep == BagCardinality(held') < BagCardinality(held)

Recycled(inst) == inst.via = {"Drop", "Clean", "Prepare", "Spawn"}

\* C1: any two guards that are held at the same time carry instances with
\* different slot ids
C1_GuardIdsDiffer ==
    \A id \in AllIds : HeldWithId(id) <= 1

\* C2: for each slot id, at most one item carries it over the work queue,
\* the workers, the ready queue and the guards
C2_OneItemPerId ==
    \A id \in AllIds : ItemsWithId(id) <= 1

\* C3 as stated: no get() issued once the ready queue has been non-empty
\* returns the pool-starved error
C3_IssuedAfterRampNeverStarved ==
    [][\A c \in Callers : get[c].ramped_at_issue => ~StarvedStep(c)]_vars

\* C3 amended: with an always-succeeding backend and fair workers the ready
\* queue eventually becomes non-empty, and a get() with a retry credit left
\* that polls while the ready queue is non-empty returns a guard holding the
\* instance at its head
C3_RampUpThenGet ==
    /\ <>(ready_queue # <<>>)
    /\ [][ready_queue # <<>>
            => /\ \A c \in Callers :
                    get[c].retries < retry_limit
                    => /\ ~StarvedStep(c)
                       /\ get'[c].empty_polls <= get[c].empty_polls
               /\ Len(ready_queue') < Len(ready_queue)
                    => /\ ready_queue' = Tail(ready_queue)
                       /\ held' = held (+) SetToBag({[Head(ready_queue) EXCEPT !.handed = 1]})]_vars

C3_Witness ==
    /\ run_state = "running"
    /\ held # EmptyBag
    /\ ready_queue # <<>>
    /\ \E c \in Callers : get[c].retries < retry_limit

\* C4: at most pool_size guards are held at a time; while pool_size guards
\* are held the ready queue is empty; and a get() that polled while pool_size
\* guards were held only ever returns an instance whose slot went through
\* Drop, Clean, Prepare and Spawn after a release
C4_AtMostPoolSizeGuards ==
    /\ [](BagCardinality(held) <= PoolSize)
    /\ [](BagCardinality(held) = PoolSize => ready_queue = <<>>)
    /\ [][\A c \in Callers :
            (get[c].saw_full /\ GuardStep /\ get'[c] = FreshGet)
            => /\ ready_queue # <<>>
               /\ Recycled(Head(ready_queue))
               /\ BagCardinality(held) < PoolSize]_vars

C4_Witness ==
    \E c \in Callers :
        /\ get[c].saw_full
        /\ get[c].retries < retry_limit
        /\ ready_queue # <<>>
        /\ ensure_healthy(Head(ready_queue))
        /\ BagCardinality(held) = PoolSize - 1

DropQueued(id) ==
    \E i \in DOMAIN work_queue : work_queue[i].kind = "Drop" /\ work_queue[i].id = id

CleanQueuedAfterDrop(id) ==
    \E i \in DOMAIN work_queue :
        /\ work_queue[i].kind = "Clean"
        /\ work_queue[i].id = id
        /\ work_queue[i].via = {"Drop"}

FreshReady(id) ==
    \E i \in DOMAIN ready_queue :
        /\ ready_queue[i].id = id
        /\ ready_queue[i].handed = 0
        /\ "Drop" \in ready_queue[i].via

\* a release puts exactly the Drop task of the released instance at the end
\* of the work queue
ReleaseEnqueuesDrop ==
    ReleaseStep =>
        \E inst \in BagToSet(held) :
            /\ held' = held (-) SetToBag({inst})
            /\ work_queue' = Append(work_queue, Task("Drop", inst.id, inst, {}))

RetryQueued(id) ==
    \E i \in DOMAIN work_queue :
        /\ work_queue[i].kind = "Clean"
        /\ work_queue[i].id = id
        /\ "Retry" \in work_queue[i].via

C6_UnhealthyRoutedToDrop ==
    [][(/\ ready_queue # <<>>
        /\ ready_queue' = Tail(ready_queue)
        /\ ~ensure_healthy(Head(ready_queue)))
       => \E i \in DOMAIN work_queue' :
            /\ work_queue'[i].kind = "Drop"
            /\ work_queue'[i].inst = Head(ready_queue)]_vars

\* the step is a worker finishing a Prepare task
PrepareFinished ==
    \E w \in Workers : Busy(w, "Prepare") /\ worker'[w].pc = "idle"

\* C7: an instance returned by get() is never in the ready queue again: the
\* ready queue holds only instances never handed out, it grows only by the
\* instance a Prepare task has just spawned, a release turns the guard's
\* instance into a Drop task, and no instance is handed out twice
C7_SingleUse ==
    /\ [](\A i \in DOMAIN ready_queue : ready_queue[i].handed = 0)
    /\ [](\A inst \in BagToSet(held) : inst.handed = 1)
    /\ [][Len(ready_queue') > Len(ready_queue)
            => /\ PrepareFinished
               /\ \E id \in SlotIds, via \in SUBSET {"Drop", "Clean"} :
                    ready_queue' = Append(ready_queue, SpawnedInstance(id, via))]_vars
    /\ [][ReleaseStep => Len(ready_queue') = Len(ready_queue)
                         /\ Len(work_queue') = Len(work_queue) + 1
                         /\ work_queue'[Len(work_queue')].kind = "Drop"]_vars

C7_Witness ==
    /\ held # EmptyBag
    /\ \E id \in AllIds : FreshReady(id)

\* C8: every guard returned by get() holds the instance that this get()
\* popped from the head of the ready queue, and ensure_healthy() of that
\* instance succeeded
C8_GuardIsHealthyPop ==
    [][GuardStep
        => /\ ready_queue # <<>>
           /\ ready_queue' = Tail(ready_queue)
           /\ ensure_healthy(Head(ready_queue))
           /\ held' = held (+) SetToBag({[Head(ready_queue) EXCEPT !.handed = @ + 1]})]_vars

C8_Witness ==
    /\ held # EmptyBag
    /\ \E i \in DOMAIN ready_queue : ~ensure_healthy(ready_queue[i])

\* C9: the retry counter of a get() is the number of its polls that found
\* the ready queue empty: a poll that pops an unhealthy instance leaves it
\* unchanged, so after any number of unhealthy pops the call still has
\* retry_limit minus its empty polls credits
C9_RetriesCountEmptyPolls ==
    /\ [](\A c \in Callers : get[c].retries = get[c].empty_polls)
    /\ [][\A c \in Callers :
            get'[c].unhealthy_pops > get[c].unhealthy_pops
            => get'[c].retries = get[c].retries]_vars
    /\ [][\A c \in Callers :
            get'[c].empty_polls > get[c].empty_polls
            => get'[c].retries = get[c].retries + 1]_vars

C9_Witness ==
    \E c \in Callers :
        /\ get[c].unhealthy_pops >= 1
        /\ get[c].empty_polls = retry_limit
        /\ retry_limit >= 2

\* C10: a get() returns the pool-starved error only after exactly
\* retry_limit empty polls, and a get() all of whose retry_limit polls found
\* the ready queue empty does nothing else than return that error, without a
\* guard and without touching the ready queue, also before run()
C10_StarvedAfterRetryLimit ==
    /\ [](\A c \in Callers : get[c].empty_polls <= retry_limit)
    /\ [][\A c \in Callers : StarvedStep(c) => get[c].empty_polls = retry_limit]_vars
    /\ [][\A c \in Callers :
            (get[c].empty_polls = retry_limit /\ get'[c] # get[c])
            => /\ StarvedStep(c)
               /\ ready_queue' = ready_queue]_vars

C10_Witness ==
    \E c \in Callers :
        /\ run_state = "new"
        /\ retry_limit >= 1
        /\ get[c].empty_polls = retry_limit
        /\ get[c].unhealthy_pops = 0

\* the step is a worker finishing the task in its hand
TaskFinished(w) == worker[w].pc = "busy" /\ worker'[w].pc = "idle"

\* C11: a call of get() ends only with a guard or, its retries used up, with
\* the pool-starved error; a failing ensure_healthy keeps the call in its
\* loop, and a worker finishing a task, whatever the backend answered,
\* changes no call of get() and no guard
C11_GuardOrStarvedOnly ==
    /\ [][\A c \in Callers :
            (get[c] # FreshGet /\ get'[c] = FreshGet)
            => (GuardStep \/ get[c].retries >= retry_limit)]_vars
    /\ [][(ready_queue # <<>> /\ ready_queue' = Tail(ready_queue) /\ held' = held)
            => \E c \in Callers :
                 get'[c].unhealthy_pops = get[c].unhealthy_pops + 1]_vars
    /\ [][(\E w \in Workers : TaskFinished(w))
            => (get' = get /\ held' = held)]_vars

C11_Witness ==
    /\ \E c \in Callers : get[c].unhealthy_pops >= 1
    /\ \E t \in AllTasks : "Retry" \in t.via
    /\ ItemCount < PoolSize

\* the work queue as PoolNoodle::new leaves it
SeededWorkQueue ==
    /\ Len(work_queue) = PoolSize
    /\ \A i \in DOMAIN work_queue :
         work_queue[i].kind = "Clean" /\ work_queue[i].inst = NoInstance
    /\ \A id \in SlotIds :
         Cardinality({i \in DOMAIN work_queue : work_queue[i].id = id}) = 1

\* C13: with check_health enabled and a failing step of the health check,
\* run() returns an error: no worker loop exists, the work queue holds its
\* seeded Clean tasks and the ready queue is empty, for good; when
\* ensure_healthy always errors run() cannot return Ok with the check enabled
C13_FailedHealthCheck ==
    /\ [](run_state = "failed"
            => /\ \A w \in Workers : worker[w].pc = "none"
               /\ SeededWorkQueue
               /\ ready_queue = <<>>)
    /\ [][run_state = "failed" => run_state' = "failed"]_vars
    /\ [][limit_requests = 0 => ~RunOk(TRUE)]_vars

C13_Witness ==
    /\ run_state = "failed"
    /\ limit_requests = 0
    /\ \E c \in Callers : get[c].empty_polls >= 1

\* C16: from construction until run() the work queue holds exactly one Clean
\* task for each id 1..pool_size and nothing else, and the ready queue is
\* empty
C16_SeededBeforeRun ==
    run_state = "new"
    => /\ SeededWorkQueue
       /\ \A i \in DOMAIN work_queue : work_queue[i].id \in SlotIds
       /\ ready_queue = <<>>
       /\ held = EmptyBag

C16_Witness ==
    /\ run_state = "new"
    /\ \A c \in Callers : get[c].empty_polls >= 1

\* C17: every instance in the ready queue is the value of a spawn() that
\* returned Ok, pushed by the Prepare task that called it, and has its watch
\* session opened and its first ping received
C17_ReadyAfterHandshake ==
    /\ [](\A i \in DOMAIN ready_queue :
            /\ "Spawn" \in ready_queue[i].via
            /\ {"watch", "first_ping"} \subseteq ready_queue[i].handshake)
    /\ [][Len(ready_queue') > Len(ready_queue)
            => \E w \in Workers :
                 /\ Busy(w, "Prepare") /\ TaskFinished(w)
                 /\ spawn(worker[w].task.id, worker[w].task.via, 0).ok
                 /\ ready_queue' = Append(ready_queue,
                        spawn(worker[w].task.id, worker[w].task.via, 0).instance)]_vars

C17_Witness ==
    /\ runtime_strategy = "LocalDocker"
    /\ ready_queue # <<>>
    /\ \E t \in AllTasks : "Retry" \in t.via

\* the step appends exactly one task of this kind and id, carrying no
\* instance, to the work queue and changes nothing else of it
EnqueuedOne(kind, id) ==
    /\ Len(work_queue') = Len(work_queue) + 1
    /\ SubSeq(work_queue', 1, Len(work_queue)) = work_queue
    /\ work_queue'[Len(work_queue')].kind = kind
    /\ work_queue'[Len(work_queue')].id = id
    /\ work_queue'[Len(work_queue')].inst = NoInstance

\* C18: handling Drop, a successful terminate() enqueues exactly one
\* Clean(id); a failed one enqueues nothing and the pool has one slot less;
\* the number of slots never grows again and a slot id that is nowhere in
\* the pool stays nowhere
C18_DropOutcome ==
    /\ [][\A w \in Workers :
            HandleDropOk(w)
            => /\ EnqueuedOne("Clean", worker[w].task.id)
               /\ ready_queue' = ready_queue
               /\ ItemCount' = ItemCount]_vars
    /\ [][\A w \in Workers :
            HandleDropErr(w)
            => /\ work_queue' = work_queue
               /\ ready_queue' = ready_queue
               /\ ItemCount' = ItemCount - 1]_vars
    /\ [][ItemCount' <= ItemCount]_vars
    /\ [][\A id \in SlotIds : ItemsWithId(id) = 0 => ItemsWithId(id)' = 0]_vars

C18_Witness ==
    /\ runtime_strategy = "LocalFirecracker"
    /\ limit_requests = None
    /\ ItemCount < PoolSize
    /\ \E id \in SlotIds : ItemsWithId(id) = 0
    /\ \E w \in Workers : Busy(w, "Drop")

C20_CleanOutcome ==
    /\ [][\A w \in Workers :
            HandleCleanOk(w)
            => /\ EnqueuedOne("Prepare", worker[w].task.id)
               /\ ready_queue' = ready_queue]_vars
    /\ [][\A w \in Workers :
            HandleCleanErr(w)
            => /\ EnqueuedOne("Clean", worker[w].task.id)
               /\ ready_queue' = ready_queue]_vars

C20_Witness ==
    \E w \in Workers :
        /\ Busy(w, "Clean")
        /\ "Retry" \in worker[w].task.via
        /\ \E i \in DOMAIN work_queue : work_queue[i].kind = "Prepare"

\* C12: when clean() fails every time for one slot id and every other
\* backend call succeeds, no instance of that id is ever in the ready queue
\* or in a guard, and under fair worker loops, one worker loop or more,
\* every other slot id eventually has an instance in the ready queue
C12_FailingCleanKeepsIdOut ==
    /\ [](\A i \in DOMAIN ready_queue : ready_queue[i].id # clean_fails_for)
    /\ [](\A inst \in BagToSet(held) : inst.id # clean_fails_for)
    /\ \A id \in SlotIds :
         <>(id = clean_fails_for
            \/ \E i \in DOMAIN ready_queue : ready_queue[i].id = id)

C12_Witness ==
    /\ max_concurrency = 1
    /\ ready_queue # <<>>
    /\ \E i \in DOMAIN work_queue :
         /\ work_queue[i].kind = "Clean"
         /\ work_queue[i].id = clean_fails_for
         /\ "Retry" \in work_queue[i].via

\* C14: once the shutdown token is cancelled no worker takes another task:
\* the work queue never gets shorter, and a worker without a task in hand
\* stays without one
C14_NoPickupAfterCancel ==
    /\ [][cancelled => Len(work_queue') >= Len(work_queue)]_vars
    /\ [][cancelled => \A w \in Workers :
                          worker[w].pc # "busy" => worker'[w].pc # "busy"]_vars

\* C15: when the token was cancelled with every guard released, the ready
\* queue empty and every worker between two tasks, no get() returns a guard
\* afterwards
C15_NoGuardAfterShutdown ==
    [][quiet_at_cancel => ~GuardStep]_vars

\* the instances of the pool: in the ready queue, in a guard, in a Drop task
AllInstances ==
    {ready_queue[i] : i \in DOMAIN ready_queue}
    \cup BagToSet(held)
    \cup {t.inst : t \in {u \in AllTasks : u.kind = "Drop"}}

\* C21: every task id and every instance id is one of the seeded slot ids
\* 1..pool_size, never the reserved id 0: a slot keeps its id around the cycle
C21_IdsStayInSlotRange ==
    /\ \A t \in AllTasks : t.id \in SlotIds /\ t.id # HealthCheckId
    /\ \A inst \in AllInstances : inst.id \in SlotIds /\ inst.id # HealthCheckId

\* the successor of the task in the hand of worker w has been enqueued by
\* the step: a task on the work queue or an instance on the ready queue
SuccessorEnqueued(w) ==
    \/ /\ EnqueuedOne("Prepare", worker[w].task.id) \/ EnqueuedOne("Clean", worker[w].task.id)
       /\ ready_queue' = ready_queue
    \/ /\ worker[w].task.kind = "Prepare"
       /\ work_queue' = work_queue
       /\ Len(ready_queue') = Len(ready_queue) + 1

\* C22: a worker with a task in hand never leaves its loop, also when the
\* token is cancelled meanwhile: it can always finish the task, and when it
\* finishes the successor is enqueued (a Drop task whose terminate() failed
\* has none)
C22_InFlightTaskCompletes ==
    /\ [][\A w \in Workers :
            worker[w].pc = "busy" => worker'[w].pc \in {"busy", "idle"}]_vars
    /\ [][\A w \in Workers :
            (cancelled /\ TaskFinished(w))
            => \/ SuccessorEnqueued(w)
               \/ /\ worker[w].task.kind = "Drop"
                  /\ work_queue' = work_queue /\ ready_queue' = ready_queue]_vars
    /\ [](\A w \in Workers :
            (cancelled /\ worker[w].pc = "busy") => ENABLED WorkerStep(w))

C22_Witness ==
    /\ cancelled
    /\ ready_queue # <<>>
    /\ \E w \in Workers : Busy(w, "Prepare")
    /\ \E w \in Workers : worker[w].pc = "exited"

\* C30: run() launches exactly max_concurrency worker loops, at most
\* max_concurrency tasks are in hand at a time, and a task leaving the work
\* queue goes to exactly one worker, which had none
C30_WorkerLoops ==
    /\ [](run_state = "running"
            => Cardinality({w \in Workers : worker[w].pc # "none"}) = max_concurrency)
    /\ [](run_state # "running" => \A w \in Workers : worker[w].pc = "none")
    /\ [](Cardinality(InFlight) <= max_concurrency)
    /\ [][Len(work_queue') < Len(work_queue)
            => /\ work_queue' = Tail(work_queue)
               /\ \E w \in Workers :
                    /\ worker[w].pc = "idle"
                    /\ worker'[w] = [pc |-> "busy", task |-> Head(work_queue)]
                    /\ \A v \in Workers \ {w} : worker'[v] = worker[v]]_vars

C30_Witness ==
    /\ max_concurrency = 1
    /\ \E w \in Workers : Busy(w, "Prepare")
    /\ \E i \in DOMAIN work_queue : work_queue[i].kind = "Clean"

\* C26: ensure_healthy() is an error exactly when the stop channel of the
\* watch loop is closed or the request counter is Some(0): with an open
\* channel it is Ok for every counter above zero and for the unset counter,
\* and get() hands out or discards the head of the ready queue accordingly
C26_EnsureHealthyExact ==
    /\ [](\A inst \in AllInstances \ {NoInstance} :
            ensure_healthy(inst) <=> (inst.watch_open /\ inst.limit_requests # 0))
    /\ [](\A inst \in AllInstances \ {NoInstance} :
            (inst.watch_open /\ (inst.limit_requests > 0 \/ inst.limit_requests = None))
            => ensure_healthy(inst))
    /\ [][GuardStep => /\ Head(ready_queue).watch_open
                       /\ Head(ready_queue).limit_requests # 0]_vars
    /\ [][(Len(ready_queue') < Len(ready_queue) /\ ~GuardStep)
            => (~Head(ready_queue).watch_open \/ Head(ready_queue).limit_requests = 0)]_vars

C26_Witness ==
    /\ limit_requests = None
    /\ \E inst \in BagToSet(held) :
         inst.dispatched = MaxDispatched /\ ensure_healthy(inst)
    /\ \E c \in Callers : get[c].unhealthy_pops >= 1

\* C27: the watch loop leaves on the stop signal, on the end of the stream
\* and on a stream error, and on nothing else; an instance whose loop has
\* left never has it running again, and ensure_healthy() fails on it from
\* then on, so get() never hands it out
C27_WatchLoopExitIsFinal ==
    /\ [](\A event \in WatchEvents :
            (watch_task(event) = "exit") <=> (event \in {"shutdown", "closed", "error"}))
    /\ [](\A i \in DOMAIN ready_queue :
            ~ready_queue[i].watch_open => ~ensure_healthy(ready_queue[i]))
    /\ [][\A i \in DOMAIN ready_queue :
            ~ready_queue[i].watch_open
            => IF Len(ready_queue') >= Len(ready_queue)
               THEN ~ready_queue'[i].watch_open
               ELSE /\ ready_queue' = Tail(ready_queue)
                    /\ i = 1 => ~GuardStep]_vars

C27_Witness ==
    /\ Len(ready_queue) = 1
    /\ ~ready_queue[1].watch_open
    /\ ready_queue[1].limit_requests # 0
    /\ \E c \in Callers : get[c].unhealthy_pops >= 1 /\ get[c].empty_polls >= 1

\* C28: when the watch stream ends before its first ping, spawn() returns
\* WatchClosed, builds no Instance and starts no watch loop, and the Prepare
\* task whose spawn() failed puts Clean(id) on the work queue and nothing on
\* the ready queue
C28_ClosedBeforeFirstPing ==
    /\ [](\A w \in InFlight :
            LET r == spawn(worker[w].task.id, worker[w].task.via, 4)
            IN  /\ SpawnSteps[4] = "first_ping"
                /\ ~r.ok
                /\ r.err = "WatchClosed"
                /\ r.instance = NoInstance
                /\ ~r.watch_task)
    /\ [][\A w \in Workers :
            (Busy(w, "Prepare") /\ TaskFinished(w) /\ ready_queue' = ready_queue)
            => EnqueuedOne("Clean", worker[w].task.id)]_vars
    /\ [](\A w \in Workers :
            Busy(w, "Prepare") => ENABLED HandleSpawnErr(w))

C28_Witness ==
    /\ runtime_strategy = "LocalProcess"
    /\ ready_queue = <<>>
    /\ \E i \in DOMAIN work_queue :
         work_queue[i].kind = "Clean" /\ "Retry" \in work_queue[i].via
    /\ \A w \in Workers : worker[w].pc = "idle"

\* C23: the health check makes its calls clean, prepare, spawn,
\* ensure_healthy, terminate, clean one after the other on the reserved id,
\* all of them before a worker loop exists; run() launches the workers only
\* after the last call, and a failing call ends run() with the calls before
\* it made and none after it, so with an ensure_healthy that always errs
\* terminate and the final clean are never reached
C23_HealthCheckInOrder ==
    /\ [](HealthCheckSteps
            = <<"clean", "prepare", "spawn", "ensure_healthy", "terminate", "clean">>)
    /\ [](HealthCheckId \notin SlotIds)
    /\ [](run_state \in {"new", "checking", "failed"}
            => \A w \in Workers : worker[w].pc = "none")
    /\ [](run_state = "new" => health_step = 0)
    /\ [][health_step' # health_step
            => \/ /\ run_state' = "checking"
                  /\ health_step' = health_step + 1
                  /\ health_step' \in DOMAIN HealthCheckSteps
               \/ /\ run_state' = "running"
                  /\ health_step = Len(HealthCheckSteps)]_vars
    /\ [][(run_state = "checking" /\ run_state' = "running")
            => health_step = Len(HealthCheckSteps)]_vars
    /\ [][run_state' = "failed"
            => /\ health_step' = health_step
               /\ health_step < Len(HealthCheckSteps)]_vars
    /\ [](limit_requests = 0 => health_step <= 3)

C23_Witness ==
    /\ run_state = "failed"
    /\ HealthCheckSteps[health_step + 1] = "ensure_healthy"
    /\ limit_requests = 0
    /\ runtime_strategy = "LocalFirecracker"

\* C24: spawn() calls client.watch() at most 30 times, pausing 64 ms
\* between two consecutive calls, before it gives up with WatchInitTimeout
C24_AtMostThirtyAttempts ==
    /\ watch_loop.result \in {"trying", "WatchInitTimeout"} => watch_loop.attempts <= 30
    /\ watch_loop.result = "WatchInitTimeout" => watch_loop.retries = 0
    /\ watch_loop.slept_ms =
         64 * (IF watch_loop.result = "trying"
               THEN watch_loop.attempts ELSE watch_loop.attempts - 1)

\* C25: an execute request that passes the health check takes exactly one
\* off a set request counter, whatever the client call returns, and the
\* counter never goes below zero: an instance spawned with limit n has
\* dispatched n minus its counter requests, so never more than n, and a
\* request on an unhealthy instance dispatches nothing
C25_BudgetCountsDispatches ==
    /\ [](\A inst \in BagToSet(held) :
            inst.limit_requests # None
            => /\ inst.limit_requests >= 0
               /\ inst.limit_requests + inst.dispatched = limit_requests
               /\ inst.dispatched <= limit_requests)
    /\ [][\A inst \in BagToSet(held) : \A client_ok \in BOOLEAN :
            Execute(inst, client_ok)
            => IF inst.watch_open /\ inst.limit_requests # 0
               THEN held' = (held (-) SetToBag({inst}))
                            (+) SetToBag({[inst EXCEPT
                                    !.dispatched = @ + 1,
                                    !.limit_requests = IF @ = None THEN None ELSE @ - 1]})
               ELSE held' = held]_vars

C25_Witness ==
    /\ limit_requests = 1
    /\ \E inst \in BagToSet(held) :
         inst.dispatched = 1 /\ inst.limit_requests = 0 /\ inst.watch_open
    /\ ready_queue # <<>>

\* C29: a push on a work queue or ready queue that holds pool_size items
\* returns at once, leaves the queue as it is and loses the pushed task or
\* instance; no queue ever holds more than pool_size items
C29_FullQueuePushDiscards ==
    /\ [](Len(work_queue) <= PoolSize /\ Len(ready_queue) <= PoolSize)
    /\ [][Len(work_queue) = PoolSize => work_queue' = work_queue]_vars
    /\ [][Len(ready_queue) = PoolSize => ready_queue' = ready_queue]_vars
    /\ [](\A id \in SlotIds :
            /\ ENABLED PushClean(id)
            /\ ENABLED PushPrepare(id)
            /\ ENABLED PushDrop(id)
            /\ ENABLED PushReady(id))

C29_Witness ==
    /\ Len(work_queue) = PoolSize
    /\ work_queue[PoolSize].kind = "Drop"
    /\ Len(ready_queue) = PoolSize
    /\ ready_queue[1].via # {}

\* C31: the slots alive in the work queue, in the hands of workers, in the
\* ready queue and in guards are never more than pool_size and their number
\* never grows; so whenever a handler or a release pushes, neither queue is
\* full and nothing is discarded by a push
C31_ItemsNeverGrow ==
    /\ [](ItemCount <= PoolSize)
    /\ [][ItemCount' <= ItemCount]_vars
    /\ [][((\E w \in Workers : TaskFinished(w)) \/ ReleaseStep)
            => /\ Len(work_queue) < PoolSize
               /\ Len(ready_queue) < PoolSize
               /\ Len(work_queue') + Len(ready_queue')
                    <= Len(work_queue) + Len(ready_queue) + 1]_vars

C31_Witness ==
    /\ ItemCount = PoolSize
    /\ BagCardinality(held) = 1
    /\ \E w \in Workers : Busy(w, "Drop")

\* C33: the work queue loses a task only to a worker loop that was idle and
\* now has exactly that task in hand, one task per step; a loop that leaves
\* on cancellation or finds nothing to pop leaves the work queue as it is,
\* and a loop outside a handler has no task
C33_PoppedTaskIsHandled ==
    /\ [][Len(work_queue') < Len(work_queue)
            => /\ work_queue' = Tail(work_queue)
               /\ \E w \in Workers :
                    /\ worker[w].pc = "idle"
                    /\ worker'[w].pc = "busy"
                    /\ worker'[w].task = Head(work_queue)]_vars
    /\ [][\A w \in Workers :
            (worker[w].pc # "exited" /\ worker'[w].pc = "exited")
            => (worker[w].pc = "idle" /\ work_queue' = work_queue)]_vars
    /\ [](\A w \in Workers :
            (worker[w].pc = "busy") <=> (worker[w].task # NoTask))

C33_Witness ==
    /\ cancelled
    /\ \E w \in Workers : worker[w].pc = "exited"
    /\ \E w \in Workers : Busy(w, "Clean")
    /\ work_queue # <<>>

\* C35: with retry_limit = 0 no call of get() ever pops the ready queue or
\* returns a guard: every call ends at once with the pool-starved error,
\* also while healthy instances are ready, and the ready queue never shrinks
C35_ZeroRetryLimitNeverPops ==
    /\ [](retry_limit = 0
            => /\ held = EmptyBag
               /\ \A c \in Callers :
                    /\ get[c] = FreshGet
                    /\ ENABLED GetStarved(c)
                    /\ ~ENABLED GetPopHealthy(c)
                    /\ ~ENABLED GetPopUnhealthy(c)
                    /\ ~ENABLED GetEmpty(c))
    /\ [][retry_limit = 0
            => /\ Len(ready_queue') >= Len(ready_queue)
               /\ \A c \in Callers : GetStarved(c) => ready_queue' = ready_queue]_vars

C35_Witness ==
    /\ retry_limit = 0
    /\ Len(ready_queue) = PoolSize
    /\ \A i \in DOMAIN ready_queue : ensure_healthy(ready_queue[i])

\* the polls a call of get() has made
PollsMade(c) == get[c].empty_polls + get[c].unhealthy_pops

\* C32: a call of get() makes at most retry_limit polls that find the ready
\* queue empty and at most pool_size polls that pop an unhealthy instance;
\* every pass of its loop is one more poll or the end of the call, a pass is
\* always possible whatever workers and other callers do, and so every call
\* ends
C32_GetTerminates ==
    /\ [](\A c \in Callers :
            /\ get[c].empty_polls <= retry_limit
            /\ get[c].unhealthy_pops <= PoolSize)
    /\ [][\A c \in Callers :
            get'[c] # get[c]
            => \/ get'[c] = FreshGet
               \/ PollsMade(c)' = PollsMade(c) + 1]_vars
    /\ [](\A c \in Callers : ENABLED GetStep(c))
    /\ \A c \in Callers : (get[c] # FreshGet) ~> (get[c] = FreshGet)

C32_Witness ==
    \E c \in Callers :
        /\ get[c].unhealthy_pops = PoolSize
        /\ get[c].empty_polls = retry_limit
        /\ retry_limit = MaxRetryLimit

\* the instances of guards on which ensure_healthy fails
UnhealthyHeld ==
    LET S == {x \in BagToSet(held) : ~ensure_healthy(x)}
    IN  BagCardinality([x \in S |-> held[x]])

\* new is what a step made of the instance old of a guard
SameInstance(old, new) ==
    /\ new.id = old.id /\ new.via = old.via /\ new.handed = old.handed
    /\ new.handshake = old.handshake

\* C34: an instance that has become unhealthy stays unhealthy: the request
\* counter of an instance never goes up, its closed stop channel never
\* opens again, a request on an unhealthy instance dispatches nothing, and
\* the unhealthy instances in guards only disappear by being released
C34_UnhealthyIsPermanent ==
    /\ [][\A new \in BagToSet(held') \ BagToSet(held) :
            \/ GuardStep
            \/ \E old \in BagToSet(held) :
                 /\ SameInstance(old, new)
                 /\ IF old.limit_requests = None
                    THEN new.limit_requests = None
                    ELSE new.limit_requests \in 0..old.limit_requests
                 /\ new.watch_open => old.watch_open
                 /\ ~ensure_healthy(old) => ~ensure_healthy(new)]_vars
    /\ [][ReleaseStep \/ UnhealthyHeld' >= UnhealthyHeld]_vars
    /\ [][\A inst \in BagToSet(held) : \A client_ok \in BOOLEAN :
            (~ensure_healthy(inst) /\ Execute(inst, client_ok))
            => held' = held]_vars
    /\ [](\A i \in DOMAIN ready_queue :
            ready_queue[i].limit_requests = limit_requests)

C34_Witness ==
    /\ \E inst \in BagToSet(held) :
         ~inst.watch_open /\ inst.limit_requests = 0 /\ inst.dispatched = 1
    /\ \E t \in AllTasks : t.kind = "Drop" /\ ~ensure_healthy(t.inst)

\* C37: a call that only looks at the health of an instance leaves its
\* request counter and the count of its dispatched requests as they are, so
\* the counter of an instance is its limit minus its dispatched requests
\* whatever was called on it, and a request rejected by the health check
\* changes nothing
C37_ProbesDoNotCount ==
    /\ [](\A inst \in BagToSet(held) :
            inst.limit_requests =
                IF limit_requests = None THEN None
                ELSE limit_requests - inst.dispatched)
    /\ [][\A inst \in BagToSet(held) : \A call \in ProbeCalls :
            Probe(inst, call)
            => \A new \in BagToSet(held') \ BagToSet(held) :
                 /\ new.limit_requests = inst.limit_requests
                 /\ new.dispatched = inst.dispatched
                 /\ new.watch_open = inst.watch_open]_vars
    /\ [][\A inst \in BagToSet(held) : \A client_ok \in BOOLEAN :
            (Execute(inst, client_ok) /\ ~(inst.watch_open /\ inst.limit_requests # 0))
            => UNCHANGED held]_vars

C37_Witness ==
    /\ limit_requests = 1
    /\ \E inst \in BagToSet(held) :
         inst.probed /\ inst.limit_requests = 1 /\ inst.watch_open
    /\ \E inst \in BagToSet(held) :
         inst.probed /\ inst.limit_requests = 0 /\ inst.dispatched = 1

TypeOK ==
    /\ Len(work_queue) <= PoolSize
    /\ Len(ready_queue) <= PoolSize
====
